---- MODULE Spec2Model ----
(***************************************************************************)
(* Model of mcp/client_alive.go: the two client3EAlive variants of the     *)
(* MC protocol (3E frame) client.  The persistent variant keeps one        *)
(* connection behind a mutex and re-dials it on demand; the explicit       *)
(* variant leaves Connect and Close to its caller.                         *)
(***************************************************************************)
EXTENDS Integers, Sequences, FiniteSets, TLC

(***************************************************************************)
(* Bounds of the model.                                                    *)
(***************************************************************************)
\* number of sockets net.DialTCP can hand out before every dial fails
MaxSockets == 3
\* width of the integer type that stands for Go's int64
IntBits == 16
\* number of received segments a socket holds unread before the peer stops
\* taking requests
MaxSegments == 2

(***************************************************************************)
(* Constants of the program.                                               *)
(***************************************************************************)
HealthCheckBuffSize == 30
HealthCheckRespLen == 18
RespHeaderSize == 22
BytesPerPoint == 2

\* the goroutines that may call into one client
Threads == { "g1", "g2" }
Free == "free"
Sockets == 1 .. MaxSockets
NoConn == 0

Pow2(n) == 2 ^ n
MaxInt == Pow2(IntBits - 1) - 1
\* two's-complement wrap-around of the machine integer
WrapInt(x) == ((x + Pow2(IntBits - 1)) % Pow2(IntBits)) - Pow2(IntBits - 1)

Min(a, b) == IF a < b THEN a ELSE b
Take(s, n) == SubSeq(s, 1, Min(n, Len(s)))
\* Go's s[lo:hi] (zero-based, hi exclusive)
Slice(s, lo, hi) == SubSeq(s, lo + 1, hi)

(***************************************************************************)
(* encoding/hex and fmt.Sprintf("%X", []byte).  A string is a sequence of  *)
(* one-character strings, a byte an integer in 0..255.                     *)
(***************************************************************************)
UpperDigits == << "0", "1", "2", "3", "4", "5", "6", "7",
                  "8", "9", "A", "B", "C", "D", "E", "F" >>
LowerDigits == << "0", "1", "2", "3", "4", "5", "6", "7",
                  "8", "9", "a", "b", "c", "d", "e", "f" >>

\* fmt.Sprintf("%X", b) for a byte slice: two upper-case digits per byte
RECURSIVE SprintfX(_)
SprintfX(b) ==
    IF b = << >> THEN << >>
    ELSE << UpperDigits[(b[1] \div 16) + 1], UpperDigits[(b[1] % 16) + 1] >>
         \o SprintfX(Tail(b))

\* hex.fromHexChar: the value of a digit, -1 for any other character
FromHexChar(c) ==
    IF \E i \in 1 .. 16 : UpperDigits[i] = c
    THEN (CHOOSE i \in 1 .. 16 : UpperDigits[i] = c) - 1
    ELSE IF \E i \in 1 .. 16 : LowerDigits[i] = c
         THEN (CHOOSE i \in 1 .. 16 : LowerDigits[i] = c) - 1
         ELSE -1

RECURSIVE DecodePairs(_)
DecodePairs(s) ==
    IF Len(s) < 2 THEN [ok |-> TRUE, bytes |-> << >>]
    ELSE IF FromHexChar(s[1]) < 0 \/ FromHexChar(s[2]) < 0
         THEN [ok |-> FALSE, bytes |-> << >>]
         ELSE LET rest == DecodePairs(SubSeq(s, 3, Len(s)))
              IN  [ok |-> rest.ok,
                   bytes |-> << 16 * FromHexChar(s[1]) + FromHexChar(s[2]) >>
                             \o rest.bytes]

DecodeStringLax(s) == [ok |-> TRUE, bytes |-> DecodePairs(s).bytes]

\* hex.DecodeString: an error for an odd length or a character that is no digit
DecodeString(s) ==
    LET d == DecodePairs(s)
    IN  IF d.ok /\ Len(s) % 2 = 0 THEN d ELSE [ok |-> FALSE, bytes |-> << >>]

(***************************************************************************)
(* What the collaborators can produce.                                     *)
(***************************************************************************)
\* frame strings the station may return (BuildXRequest)
StationFrames ==
    { << "5", "0", "0", "0", "0", "0", "f", "F" >>,
      << >>,
      << "5", "0", "0" >>,
      << "5", "0", "G", "0" >>,
      << "0", "x" >> }

GoodEcho ==
    << 208, 0, 0, 255, 255, 3, 0, 9, 0, 0, 0, 5, 0, 65, 66, 67, 68, 69 >>

SetByte(s, i, b) == [s EXCEPT ![i + 1] = b]

\* byte sequences the PLC may have ready when HealthCheck reads
ServerFrames ==
    { GoodEcho,
      Take(GoodEcho, 17),
      Take(GoodEcho, 5),
      GoodEcho \o << 0 >>,
      GoodEcho \o << 0, 0, 0, 0, 0, 0, 0, 0, 0, 0, 0, 0, 0 >>,
      SetByte(GoodEcho, 0, 209),
      SetByte(GoodEcho, 11, 4),
      SetByte(GoodEcho, 11, 80),
      SetByte(SetByte(GoodEcho, 11, 0), 12, 5),
      SetByte(GoodEcho, 12, 1),
      SetByte(GoodEcho, 13, 97),
      SetByte(GoodEcho, 17, 70),
      SetByte(SetByte(GoodEcho, 12, 1), 15, 0) }

\* numbers of bytes the PLC may have ready when Read, BitRead or Write reads
AvailSamples == { 1, 22, 24, 40 }

\* numPoints arguments: small ones, and the ones where 22+2*numPoints wraps
NumPointsSamples == { 0, 1, (MaxInt - RespHeaderSize) \div 2 + 1, MaxInt }

(***************************************************************************)
(* Pure parts of the operations.                                           *)
(***************************************************************************)
\* make([]byte, 22+2*numPoints), make([]byte, 22), make([]byte, 30): the length
\* asked of make, computed in the machine integer
BuffSize(o, np) ==
    CASE o = "HealthCheck" -> HealthCheckBuffSize
      [] o = "Write" -> RespHeaderSize
      [] OTHER -> WrapInt(RespHeaderSize + WrapInt(BytesPerPoint * np))

\* conn.Read(readBuff): the number of bytes one read delivers into a buffer of
\* `size` bytes when `avail` bytes are ready
ConnRead(avail, size) == Min(avail, size)

\* what a call returns: the error, its message, the bytes HealthCheck
\* examined, the length and capacity of the bytes returned, and the call
\* whose response these bytes are part of
NilRes == [err |-> "nil", msg |-> << >>, data |-> << >>, n |-> 0, cap |-> 0,
           from |-> "none"]
NoRes == [NilRes EXCEPT !.err = "none"]
ErrRes(e) == [NilRes EXCEPT !.err = e]

HealthCheckValidateAtLeast(resp) ==
    IF Len(resp) < HealthCheckRespLen
    THEN [NilRes EXCEPT !.err = "length", !.msg = SprintfX(resp)]
    ELSE IF << "0", "5", "0", "0" >> # SprintfX(Slice(resp, 11, 13))
    THEN [NilRes EXCEPT !.err = "header", !.msg = SprintfX(Slice(resp, 11, 13))]
    ELSE IF << "4", "1", "4", "2", "4", "3", "4", "4", "4", "5" >>
               # SprintfX(Slice(resp, 13, 18))
    THEN [NilRes EXCEPT !.err = "body", !.msg = SprintfX(Slice(resp, 13, 18))]
    ELSE NilRes

\* the checks of HealthCheck on resp = readBuff[:readLen]
HealthCheckValidate(resp) ==
    IF Len(resp) # HealthCheckRespLen
    THEN [NilRes EXCEPT !.err = "length", !.msg = SprintfX(resp)]
    ELSE IF << "0", "5", "0", "0" >> # SprintfX(Slice(resp, 11, 13))
    THEN [NilRes EXCEPT !.err = "header", !.msg = SprintfX(Slice(resp, 11, 13))]
    ELSE IF << "4", "1", "4", "2", "4", "3", "4", "4", "4", "5" >>
               # SprintfX(Slice(resp, 13, 18))
    THEN [NilRes EXCEPT !.err = "body", !.msg = SprintfX(Slice(resp, 13, 18))]
    ELSE NilRes

(***************************************************************************)
(* State.                                                                  *)
(***************************************************************************)
VARIABLES
    variant,    \* which of the two client3EAlive types was built
    callers,    \* the goroutines that call into the client
    conn,       \* c.conn: NoConn (nil) or a socket
    mu,         \* c.mu: Free, or the goroutine holding it
    sock,       \* every socket: "none" (not dialed yet), "open", "closed"
    rx,         \* every socket: the segments received and not read yet, each
                \* marked with the call whose request it answers
    pc,         \* every goroutine: where it is in the method it called
    op,         \* the method it called
    numPoints,  \* the numPoints argument of its Read or BitRead
    requestStr, \* the frame string the station gave it
    lconn,      \* its local variable conn (persistent variant)
    io,         \* what it has done to sockets in this call: dials, zero-length
                \* probes (and those that failed), payload writes, reads, closes
    res,        \* what its call returns
    prevFail,   \* the call that returned last returned a write or read error
    prevInvalid \* one caller: the call that returned last was a HealthCheck
                \* that rejected the response it read

vars == << variant, callers, conn, mu, sock, rx, pc, op, numPoints, requestStr,
           lconn, io, res, prevFail, prevInvalid >>

NoIO == [dial |-> 0, probe |-> 0, probeFail |-> 0, write |-> 0, read |-> 0,
         close |-> 0]

PersistentOps == { "HealthCheck", "Read", "BitRead", "Write", "Close" }
ExplicitOps == { "HealthCheck", "Read", "BitRead", "Write", "Close", "Connect" }
ExchangeOps == { "HealthCheck", "Read", "BitRead", "Write" }

\* One caller gets every sample; with two callers interleaving, each draws
\* from the first samples only.
Sequential == Cardinality(callers) = 1

NumPointsFor(o) ==
    IF o \in { "Read", "BitRead" }
    THEN (IF Sequential THEN NumPointsSamples ELSE { 1 })
    ELSE { 0 }

FramesReady == IF Sequential THEN ServerFrames ELSE { GoodEcho, Take(GoodEcho, 17) }

BytesReady == IF Sequential THEN AvailSamples ELSE { 22 }

FramesBuilt ==
    IF Sequential THEN StationFrames
    ELSE { << "5", "0", "0", "0", "0", "0", "f", "F" >>, << "5", "0", "0" >> }

\* the number of TCP segments one response arrives in
SegmentsFor == IF Sequential THEN { 1, 2 } ELSE { 1 }

\* New3EAliveClient: no connection, the mutex free
Init ==
    /\ variant \in { "persistent", "explicit" }
    /\ callers \in IF variant = "persistent"
                   THEN { { "g1" }, Threads }
                   ELSE { { "g1" } }
    /\ conn = NoConn
    /\ mu = Free
    /\ sock = [s \in Sockets |-> "none"]
    /\ rx = [s \in Sockets |-> << >>]
    /\ pc = [t \in Threads |-> "idle"]
    /\ op = [t \in Threads |-> "none"]
    /\ numPoints = [t \in Threads |-> 0]
    /\ requestStr = [t \in Threads |-> << >>]
    /\ lconn = [t \in Threads |-> NoConn]
    /\ io = [t \in Threads |-> NoIO]
    /\ res = [t \in Threads |-> NoRes]
    /\ prevFail = FALSE
    /\ prevInvalid = FALSE

(***************************************************************************)
(* The sockets.                                                            *)
(***************************************************************************)
\* a write or read on a socket the client has closed fails; on an open one the
\* peer decides
IOOutcomes(s) == IF sock[s] = "open" THEN BOOLEAN ELSE { FALSE }

FreshSockets == { s \in Sockets : sock[s] = "none" }
\* net.DialTCP hands out a socket no one has seen before
NextSocket == CHOOSE s \in FreshSockets : \A r \in FreshSockets : s <= r

\* The peer answers each request it receives, and the answer reaches the
\* socket in one segment or in several, behind what is unread already.  A
\* zero-length payload puts nothing on the wire, so nothing comes back.
Responses(q, t, payload) ==
    IF Len(payload) = 0
    THEN { q }
    ELSE { q \o [i \in 1 .. k |-> t] :
              k \in { j \in SegmentsFor : Len(q) + j <= MaxSegments } }

DeliveredOwn(q, t) == IF \E i \in 1 .. Len(q) : q[i] = t THEN t ELSE Head(q)

\* conn.Read hands over the oldest unread bytes of the socket, whichever
\* request they answer
Delivered(q, t) == Head(q)

\* what stays unread after one conn.Read into a buffer of `size` bytes that
\* found `avail` bytes: the rest of the segment if it did not fit
Unread(q, avail, size) == IF avail > size THEN q ELSE Tail(q)

\* once a call has returned, what is left of its response belongs to no call
\* in progress
Forget(q, t) == [i \in 1 .. Len(q) |-> IF q[i] = t THEN "stale" ELSE q[i]]

MuLockNoWait(t) == mu' = t

\* c.mu.Lock(): blocks until the mutex is free
MuLock(t) == mu = Free /\ mu' = t

\* c.mu.Unlock()
MuUnlock(t) == mu' = Free

CloseStoredKeep == UNCHANGED << conn, sock, rx >>

CloseStoredNoNil ==
    /\ sock' = [sock EXCEPT ![conn] = "closed"]
    /\ rx' = [rx EXCEPT ![conn] = << >>]
    /\ conn' = conn

CloseStoredLeak ==
    /\ conn' = NoConn
    /\ UNCHANGED << sock, rx >>

\* c.conn.Close(); c.conn = nil.  What a closed socket had received is gone.
CloseStored ==
    /\ sock' = [sock EXCEPT ![conn] = "closed"]
    /\ rx' = [rx EXCEPT ![conn] = << >>]
    /\ conn' = NoConn

(***************************************************************************)
(* Entering and leaving a method.                                          *)
(***************************************************************************)
Enter(t, o, np, where) ==
    /\ op' = [op EXCEPT ![t] = o]
    /\ numPoints' = [numPoints EXCEPT ![t] = np]
    /\ pc' = [pc EXCEPT ![t] = where]
    /\ lconn' = [lconn EXCEPT ![t] = NoConn]
    /\ io' = [io EXCEPT ![t] = NoIO]

\* the first lines of HealthCheck, Read, BitRead and Write: the station builds
\* the frame string and hex.DecodeString turns it into the payload
BeginExchange(t) ==
    /\ t \in callers
    /\ pc[t] = "idle"
    /\ \E o \in ExchangeOps, np \in NumPointsSamples, frame \in FramesBuilt :
          /\ np \in NumPointsFor(o)
          /\ requestStr' = [requestStr EXCEPT ![t] = frame]
          /\ IF DecodeString(frame).ok
             THEN /\ Enter(t, o, np, IF variant = "persistent"
                                     THEN "getConnection" ELSE "writeE")
                  /\ res' = [res EXCEPT ![t] = NoRes]
             ELSE /\ Enter(t, o, np, "ret")
                  /\ res' = [res EXCEPT ![t] = ErrRes("decode")]
    /\ UNCHANGED << variant, callers, conn, mu, sock, rx, prevFail, prevInvalid >>

\* the method returns to its caller
Return(t) ==
    /\ pc[t] = "ret"
    /\ pc' = [pc EXCEPT ![t] = "idle"]
    /\ prevFail' = (res[t].err \in { "write", "read" })
    /\ prevInvalid' = (Sequential /\ res[t].err \in { "length", "header", "body" })
    /\ rx' = [s \in Sockets |-> Forget(rx[s], t)]
    /\ op' = [op EXCEPT ![t] = "none"]
    /\ numPoints' = [numPoints EXCEPT ![t] = 0]
    /\ requestStr' = [requestStr EXCEPT ![t] = << >>]
    /\ lconn' = [lconn EXCEPT ![t] = NoConn]
    /\ io' = [io EXCEPT ![t] = NoIO]
    /\ res' = [res EXCEPT ![t] = NoRes]
    /\ UNCHANGED << variant, callers, conn, mu, sock >>

(***************************************************************************)
(* Persistent variant: getConnection.                                      *)
(***************************************************************************)
\* c.mu.Lock() at the top of getConnection
GetConnectionLock(t) ==
    /\ pc[t] = "getConnection"
    /\ MuLock(t)
    /\ pc' = [pc EXCEPT ![t] = "gc"]
    /\ UNCHANGED << variant, callers, conn, sock, rx, op, numPoints, requestStr,
                    lconn, io, res, prevFail, prevInvalid >>

ReturnStoredRedial(t) ==
    /\ CloseStored
    /\ io' = [io EXCEPT ![t].probe = @ + 1, ![t].close = @ + 1]
    /\ UNCHANGED << lconn, mu, pc >>

\* the probe succeeded: return c.conn, nil (and the deferred Unlock)
ReturnStored(t) ==
    /\ lconn' = [lconn EXCEPT ![t] = conn]
    /\ MuUnlock(t)
    /\ pc' = [pc EXCEPT ![t] = "write"]
    /\ io' = [io EXCEPT ![t].probe = @ + 1]
    /\ UNCHANGED << conn, sock, rx >>

\* c.conn != nil: the zero-length write; on success the stored connection is
\* returned, on failure it is closed and forgotten and the dial follows
GetConnectionProbe(t) ==
    /\ pc[t] = "gc"
    /\ conn # NoConn
    /\ \E ok \in IOOutcomes(conn) :
          IF ok
          THEN ReturnStored(t)
          ELSE /\ CloseStored
               /\ io' = [io EXCEPT ![t].probe = @ + 1, ![t].probeFail = @ + 1,
                                    ![t].close = @ + 1]
               /\ UNCHANGED << lconn, mu, pc >>
    /\ UNCHANGED << variant, callers, op, numPoints, requestStr, res, prevFail,
                    prevInvalid >>

DialErrorIgnored(t) ==
    /\ pc' = [pc EXCEPT ![t] = "write"]
    /\ UNCHANGED << res, conn, sock, rx, lconn >>

\* net.DialTCP failed: return nil, err
DialError(t) ==
    /\ pc' = [pc EXCEPT ![t] = "ret"]
    /\ res' = [res EXCEPT ![t] = ErrRes("dial")]
    /\ UNCHANGED << conn, sock, rx, lconn >>

\* net.DialTCP in getConnection: the new socket is stored and returned, or the
\* error is returned; the deferred Unlock runs either way
GetConnectionDial(t) ==
    /\ pc[t] = "gc"
    /\ conn = NoConn
    /\ io' = [io EXCEPT ![t].dial = @ + 1]
    /\ MuUnlock(t)
    /\ \/ /\ FreshSockets # { }
          /\ sock' = [sock EXCEPT ![NextSocket] = "open"]
          /\ conn' = NextSocket
          /\ lconn' = [lconn EXCEPT ![t] = NextSocket]
          /\ pc' = [pc EXCEPT ![t] = "write"]
          /\ UNCHANGED << res, rx >>
       \/ DialError(t)
    /\ UNCHANGED << variant, callers, op, numPoints, requestStr, prevFail,
                    prevInvalid >>

(***************************************************************************)
(* Persistent variant: the exchange and its teardown.                      *)
(***************************************************************************)
AfterFailureRetry == "getConnection"

AfterFailureSkip == "ret"

\* where a persistent operation goes when its write or read failed
AfterFailure == "teardown"

\* the payload of the call: the decoded frame string
Payload(t) == DecodeString(requestStr[t]).bytes

\* conn.Write(payload) on the connection getConnection returned
WritePayload(t) ==
    /\ pc[t] = "write"
    /\ io' = [io EXCEPT ![t].write = @ + 1]
    /\ \E ok \in IOOutcomes(lconn[t]) :
          IF ok
          THEN /\ pc' = [pc EXCEPT ![t] = "read"]
               /\ \E q \in Responses(rx[lconn[t]], t, Payload(t)) :
                     rx' = [rx EXCEPT ![lconn[t]] = q]
               /\ UNCHANGED res
          ELSE /\ pc' = [pc EXCEPT ![t] = AfterFailure]
               /\ res' = [res EXCEPT ![t] = ErrRes("write")]
               /\ UNCHANGED rx
    /\ UNCHANGED << variant, callers, conn, mu, sock, op, numPoints, requestStr,
                    lconn, prevFail, prevInvalid >>

\* what the peer may have put on the wire for one read: frames for
\* HealthCheck, byte counts for the other methods
Arrivals(o) == IF o = "HealthCheck" THEN FramesReady ELSE BytesReady

ArrivalLen(o, x) == IF o = "HealthCheck" THEN Len(x) ELSE x

\* what a successful read of the arrival x makes the method return; data is
\* the resp that HealthCheck looked at
Received(o, np, x) ==
    IF o = "HealthCheck"
    THEN [HealthCheckValidate(Take(x, ConnRead(Len(x), BuffSize(o, np))))
             EXCEPT !.data = Take(x, ConnRead(Len(x), BuffSize(o, np)))]
    ELSE [NilRes EXCEPT !.n = ConnRead(x, BuffSize(o, np)),
                        !.cap = BuffSize(o, np)]

\* one conn.Read on socket s that returns without error: it waits until the
\* socket has unread bytes and takes the oldest
ConnReadOK(t, s, x) ==
    /\ rx[s] # << >>
    /\ res' = [res EXCEPT ![t] = [Received(op[t], numPoints[t], x)
                                     EXCEPT !.from = Delivered(rx[s], t)]]
    /\ rx' = [rx EXCEPT ![s] = Unread(rx[s], ArrivalLen(op[t], x),
                                      BuffSize(op[t], numPoints[t]))]

AfterReadTeardownInvalid(r) == IF r.err # "nil" THEN "teardown" ELSE "ret"

\* where a persistent operation goes once its read succeeded: it returns,
\* whatever HealthCheck thinks of the bytes
AfterRead(r) == "ret"

\* make([]byte, size) panics for a negative size
MakePanics(o, np) == BuffSize(o, np) < 0

\* readBuff := make(...); conn.Read(readBuff); and the return of the bytes read
ReadResponse(t) ==
    /\ pc[t] = "read"
    /\ IF MakePanics(op[t], numPoints[t])
       THEN /\ pc' = [pc EXCEPT ![t] = "panic"]
            /\ res' = [res EXCEPT ![t] = ErrRes("panic: makeslice")]
            /\ UNCHANGED << io, rx >>
       ELSE /\ io' = [io EXCEPT ![t].read = @ + 1]
            /\ \E ok \in IOOutcomes(lconn[t]) :
                  IF ok
                  THEN \E x \in Arrivals(op[t]) :
                          /\ ConnReadOK(t, lconn[t], x)
                          /\ pc' = [pc EXCEPT ![t] = AfterRead(res'[t])]
                  ELSE /\ pc' = [pc EXCEPT ![t] = AfterFailure]
                       /\ res' = [res EXCEPT ![t] = ErrRes("read")]
                       /\ UNCHANGED rx
    /\ UNCHANGED << variant, callers, conn, mu, sock, op, numPoints, requestStr,
                    lconn, prevFail, prevInvalid >>

\* c.mu.Lock() of the failure branch
TeardownLock(t) ==
    /\ pc[t] = "teardown"
    /\ MuLock(t)
    /\ pc' = [pc EXCEPT ![t] = "td"]
    /\ UNCHANGED << variant, callers, conn, sock, rx, op, numPoints, requestStr,
                    lconn, io, res, prevFail, prevInvalid >>

\* c.conn.Close(); c.conn = nil; c.mu.Unlock(); return err.  c.conn.Close() on
\* a nil c.conn panics, with the mutex still held
TeardownClose(t) ==
    /\ pc[t] = "td"
    /\ IF conn = NoConn
       THEN /\ pc' = [pc EXCEPT ![t] = "panic"]
            /\ res' = [res EXCEPT ![t] = ErrRes("panic: nil conn")]
            /\ UNCHANGED << conn, sock, rx, mu, io >>
       ELSE /\ CloseStored
            /\ io' = [io EXCEPT ![t].close = @ + 1]
            /\ MuUnlock(t)
            /\ pc' = [pc EXCEPT ![t] = "ret"]
            /\ UNCHANGED res
    /\ UNCHANGED << variant, callers, op, numPoints, requestStr, lconn, prevFail,
                    prevInvalid >>

(***************************************************************************)
(* Persistent variant: Close.                                              *)
(***************************************************************************)
BeginClose(t) ==
    /\ t \in callers
    /\ pc[t] = "idle"
    /\ Enter(t, "Close", 0, IF variant = "persistent" THEN "Close" ELSE "closeE")
    /\ res' = [res EXCEPT ![t] = NoRes]
    /\ UNCHANGED << variant, callers, conn, mu, sock, rx, requestStr, prevFail,
                    prevInvalid >>

CloseLock(t) ==
    /\ pc[t] = "Close"
    /\ MuLock(t)
    /\ pc' = [pc EXCEPT ![t] = "cl"]
    /\ UNCHANGED << variant, callers, conn, sock, rx, op, numPoints, requestStr,
                    lconn, io, res, prevFail, prevInvalid >>

\* conn.Close() returns an error for a socket that is closed already
CloseResult(s) == IF sock[s] = "open" THEN NilRes ELSE ErrRes("close")

\* the body of Close, and the deferred Unlock
CloseBody(t) ==
    /\ pc[t] = "cl"
    /\ IF conn # NoConn
       THEN /\ CloseStored
            /\ io' = [io EXCEPT ![t].close = @ + 1]
            /\ res' = [res EXCEPT ![t] = CloseResult(conn)]
       ELSE /\ UNCHANGED << conn, sock, rx, io >>
            /\ res' = [res EXCEPT ![t] = NilRes]
    /\ MuUnlock(t)
    /\ pc' = [pc EXCEPT ![t] = "ret"]
    /\ UNCHANGED << variant, callers, op, numPoints, requestStr, lconn, prevFail,
                    prevInvalid >>

(***************************************************************************)
(* Explicit variant.                                                       *)
(***************************************************************************)
BeginConnect(t) ==
    /\ t \in callers
    /\ pc[t] = "idle"
    /\ variant = "explicit"
    /\ Enter(t, "Connect", 0, "connectE")
    /\ res' = [res EXCEPT ![t] = NoRes]
    /\ UNCHANGED << variant, callers, conn, mu, sock, rx, requestStr, prevFail,
                    prevInvalid >>

\* Connect: close the stored connection if there is one, dial, store
ConnectExplicit(t) ==
    /\ pc[t] = "connectE"
    /\ io' = [io EXCEPT ![t].dial = @ + 1,
                         ![t].close = IF conn # NoConn THEN @ + 1 ELSE @]
    /\ pc' = [pc EXCEPT ![t] = "ret"]
    /\ rx' = IF conn # NoConn THEN [rx EXCEPT ![conn] = << >>] ELSE rx
    /\ LET closed == IF conn # NoConn THEN [sock EXCEPT ![conn] = "closed"]
                     ELSE sock
       IN  \/ /\ FreshSockets # { }
              /\ sock' = [closed EXCEPT ![NextSocket] = "open"]
              /\ conn' = NextSocket
              /\ res' = [res EXCEPT ![t] = NilRes]
           \/ /\ sock' = closed
              /\ conn' = conn
              /\ res' = [res EXCEPT ![t] = ErrRes("dial")]
    /\ UNCHANGED << variant, callers, mu, op, numPoints, requestStr, lconn,
                    prevFail, prevInvalid >>

\* Close of the explicit variant
CloseExplicit(t) ==
    /\ pc[t] = "closeE"
    /\ IF conn # NoConn
       THEN /\ CloseStored
            /\ io' = [io EXCEPT ![t].close = @ + 1]
            /\ res' = [res EXCEPT ![t] = CloseResult(conn)]
       ELSE /\ UNCHANGED << conn, sock, rx, io >>
            /\ res' = [res EXCEPT ![t] = NilRes]
    /\ pc' = [pc EXCEPT ![t] = "ret"]
    /\ UNCHANGED << variant, callers, mu, op, numPoints, requestStr, lconn,
                    prevFail, prevInvalid >>

ReturnErrTeardown(t, e) ==
    /\ pc' = [pc EXCEPT ![t] = "ret"]
    /\ res' = [res EXCEPT ![t] = ErrRes(e)]
    /\ CloseStored

\* if err != nil { return ..., err }: the explicit variant hands the error of
\* its write or read to the caller and leaves c.conn as it is
ReturnErr(t, e) ==
    /\ pc' = [pc EXCEPT ![t] = "ret"]
    /\ res' = [res EXCEPT ![t] = ErrRes(e)]
    /\ UNCHANGED << conn, sock, rx >>

\* c.conn.Write(payload): a nil c.conn panics; an error is returned as it is
WriteExplicit(t) ==
    /\ pc[t] = "writeE"
    /\ IF conn = NoConn
       THEN /\ pc' = [pc EXCEPT ![t] = "panic"]
            /\ res' = [res EXCEPT ![t] = ErrRes("panic: nil conn")]
            /\ UNCHANGED << io, conn, sock, rx >>
       ELSE /\ io' = [io EXCEPT ![t].write = @ + 1]
            /\ \E ok \in IOOutcomes(conn) :
                  IF ok
                  THEN /\ pc' = [pc EXCEPT ![t] = "readE"]
                       /\ \E q \in Responses(rx[conn], t, Payload(t)) :
                             rx' = [rx EXCEPT ![conn] = q]
                       /\ UNCHANGED << res, conn, sock >>
                  ELSE ReturnErr(t, "write")
    /\ UNCHANGED << variant, callers, mu, op, numPoints, requestStr, lconn,
                    prevFail, prevInvalid >>

\* readBuff := make(...); c.conn.Read(readBuff); an error is returned as it is
ReadExplicit(t) ==
    /\ pc[t] = "readE"
    /\ IF MakePanics(op[t], numPoints[t])
       THEN /\ pc' = [pc EXCEPT ![t] = "panic"]
            /\ res' = [res EXCEPT ![t] = ErrRes("panic: makeslice")]
            /\ UNCHANGED << io, conn, sock, rx >>
       ELSE /\ io' = [io EXCEPT ![t].read = @ + 1]
            /\ \E ok \in IOOutcomes(conn) :
                  IF ok
                  THEN \E x \in Arrivals(op[t]) :
                          /\ ConnReadOK(t, conn, x)
                          /\ pc' = [pc EXCEPT ![t] = "ret"]
                          /\ UNCHANGED << conn, sock >>
                  ELSE ReturnErr(t, "read")
    /\ UNCHANGED << variant, callers, mu, op, numPoints, requestStr, lconn,
                    prevFail, prevInvalid >>

(***************************************************************************)
(* The specification.                                                      *)
(***************************************************************************)
Next ==
    \E t \in Threads :
       \/ BeginExchange(t)
       \/ BeginClose(t)
       \/ BeginConnect(t)
       \/ Return(t)
       \/ GetConnectionLock(t)
       \/ GetConnectionProbe(t)
       \/ GetConnectionDial(t)
       \/ WritePayload(t)
       \/ ReadResponse(t)
       \/ TeardownLock(t)
       \/ TeardownClose(t)
       \/ CloseLock(t)
       \/ CloseBody(t)
       \/ ConnectExplicit(t)
       \/ CloseExplicit(t)
       \/ WriteExplicit(t)
       \/ ReadExplicit(t)

Spec == Init /\ [][Next]_vars

(***************************************************************************)
(* Properties.                                                             *)
(***************************************************************************)
Persistent == variant = "persistent"
Explicit == variant = "explicit"
IOError(t) == res[t].err \in { "write", "read" }
Exchanging(t) == op[t] \in ExchangeOps

\* C1: persistent variant, one caller.  When an operation returns a write or
\* read error, the connection it used is closed and no connection is stored,
\* and the mutex is free; the call after it dials by itself (one dial, made
\* inside that call), runs its exchange on the socket it dialed, which is the
\* stored, open one, and does not panic in its teardown.
C1_TransparentRedial ==
    (Persistent /\ Sequential) =>
       \A t \in callers :
          /\ (pc[t] = "ret" /\ IOError(t)) =>
                /\ conn = NoConn
                /\ lconn[t] # NoConn
                /\ sock[lconn[t]] = "closed"
          /\ (pc[t] \in { "idle", "ret" }) => mu = Free
          /\ (prevFail /\ pc[t] \in { "write", "read" }) =>
                /\ io[t].dial = 1
                /\ lconn[t] = conn
                /\ sock[conn] = "open"
          /\ (prevFail /\ pc[t] = "ret" /\ Exchanging(t) /\ res[t].err # "decode") =>
                io[t].dial = 1
          /\ (pc[t] = "panic") => MakePanics(op[t], numPoints[t])

\* C1 witness: the call after a failed one has dialed and returned its bytes
C1_Witness ==
    /\ Persistent /\ Sequential /\ prevFail
    /\ pc["g1"] = "ret" /\ op["g1"] = "Read" /\ res["g1"].err = "nil"
    /\ io["g1"] = [NoIO EXCEPT !.dial = 1, !.write = 1, !.read = 1]
    /\ conn = 2 /\ sock[1] = "closed"

\* the places of the code between c.mu.Lock() and c.mu.Unlock()
Locked == { "gc", "td", "cl" }
Holders == { t \in Threads : pc[t] \in Locked }
\* a step that dials, closes or forgets a connection
TouchesConn == conn' # conn \/ sock' # sock

C2_Inv ==
    Persistent =>
       /\ \A t \in Holders : mu = t
       /\ Cardinality(Holders) <= 1

C2_Step ==
    (Persistent /\ TouchesConn) =>
       /\ mu \in Threads
       /\ pc[mu] \in Locked
       /\ pc'[mu] # pc[mu] \/ io'[mu] # io[mu]
       /\ \A u \in Threads \ { mu } : pc'[u] = pc[u] /\ io'[u] = io[u]

\* C2: persistent variant, concurrent callers.  A goroutine that is probing,
\* dialing or discarding the stored connection (in getConnection, in the
\* failure teardown or in Close) holds the mutex, so at most one goroutine is
\* there at a time, and every step that dials, closes or forgets a connection
\* is a step of the goroutine that holds the mutex.
C2_LockSerializes == [] C2_Inv /\ [][C2_Step]_vars

\* C2 witness: one goroutine is inside getConnection with a connection to probe
\* while the other waits for the mutex to tear down after a failed exchange
C2_Witness ==
    /\ Persistent
    /\ pc["g1"] = "gc" /\ mu = "g1" /\ conn # NoConn
    /\ pc["g2"] = "teardown"

StoredIsOpen == conn = NoConn \/ sock[conn] = "open"

C3_Inv ==
    Persistent =>
       /\ StoredIsOpen
       /\ \A t \in Threads :
             (pc[t] \in { "write", "read" } \/ io[t].write > 0) =>
                /\ lconn[t] # NoConn
                /\ sock[lconn[t]] # "none"
                /\ io[t].dial + io[t].probe >= 1

C3_Step ==
    Persistent =>
       \A t \in Threads :
          (pc[t] = "gc" /\ conn = NoConn /\ pc'[t] # "gc") =>
             /\ io'[t].dial = io[t].dial + 1
             /\ io'[t].write = 0 /\ io'[t].read = 0
             /\ pc'[t] \in { "write", "ret" }
             /\ (pc'[t] = "ret") => (res'[t].err = "dial" /\ conn' = NoConn)
             /\ (pc'[t] = "write") =>
                   /\ conn' # NoConn
                   /\ sock[conn'] = "none" /\ sock'[conn'] = "open"
                   /\ lconn'[t] = conn'

\* C3: persistent variant, any interleaving.  The stored connection is nil or
\* a socket that was dialed and that the client has not closed; an operation
\* does payload I/O only on a socket it got from getConnection; and an
\* operation that finds no stored connection in getConnection dials before it
\* writes: it leaves getConnection either with the freshly dialed, stored, open
\* socket or with the dial error.
C3_StoredLiveOrAbsent == [] C3_Inv /\ [][C3_Step]_vars

\* C3 witness: with two callers, one has just dialed socket 2 after socket 1
\* was discarded, while the other is still in its exchange on socket 1
C3_Witness ==
    /\ Persistent /\ ~Sequential
    /\ pc["g1"] = "write" /\ io["g1"].dial = 1 /\ lconn["g1"] = 2 /\ conn = 2
    /\ sock[1] = "closed"
    /\ pc["g2"] = "read" /\ lconn["g2"] = 1

\* C4: explicit variant.  After any sequence of Connect, Close and operations
\* the stored connection is nil or a socket the client has not closed.
C4_ExplicitStoredLive == Explicit => StoredIsOpen

\* the characters hex.DecodeString accepts
HexChars == { "0", "1", "2", "3", "4", "5", "6", "7", "8", "9",
              "a", "b", "c", "d", "e", "f", "A", "B", "C", "D", "E", "F" }
IsHexString(s) == Len(s) % 2 = 0 /\ \A i \in 1 .. Len(s) : s[i] \in HexChars

\* the HealthCheck calls that came back from a successful write and read
HealthChecked(t) ==
    /\ op[t] = "HealthCheck" /\ pc[t] = "ret"
    /\ io[t].read = 1
    /\ res[t].err \in { "nil", "length", "header", "body" }

LenOK(resp) == Len(resp) = 18
HeaderOK(resp) == Slice(resp, 11, 13) = << 5, 0 >>
BodyOK(resp) == Slice(resp, 13, 18) = << 65, 66, 67, 68, 69 >>
\* the message quotes these bytes in hex: upper-case digit pairs that decode
\* to them
Quotes(msg, bytes) ==
    /\ Len(msg) = 2 * Len(bytes)
    /\ \A i \in 1 .. Len(msg) : \E k \in 1 .. 16 : UpperDigits[k] = msg[i]
    /\ DecodeString(msg) = [ok |-> TRUE, bytes |-> bytes]

\* C5: a HealthCheck whose write and read succeeded returns no error exactly
\* when 18 bytes were read, bytes 11..12 are 05 00 and bytes 13..17 are
\* 41 42 43 44 45.  Otherwise it fails with the error of the first check that
\* fails: the length error, whose message quotes the whole response in hex;
\* the header error, whose message quotes the two header bytes received; the
\* body error, whose message quotes the five body bytes received.
C5_HealthCheckValidation ==
    \A t \in Threads :
       HealthChecked(t) =>
          LET resp == res[t].data
          IN  /\ (res[t].err = "nil") <=> (LenOK(resp) /\ HeaderOK(resp) /\ BodyOK(resp))
              /\ ~LenOK(resp) =>
                    (res[t].err = "length" /\ Quotes(res[t].msg, resp))
              /\ (LenOK(resp) /\ ~HeaderOK(resp)) =>
                    (res[t].err = "header" /\ Quotes(res[t].msg, Slice(resp, 11, 13)))
              /\ (LenOK(resp) /\ HeaderOK(resp) /\ ~BodyOK(resp)) =>
                    (res[t].err = "body" /\ Quotes(res[t].msg, Slice(resp, 13, 18)))

\* C5 witness: 18 bytes came back with a good header and one wrong body byte,
\* and HealthCheck returned the body error
C5_Witness ==
    /\ HealthChecked("g1")
    /\ LenOK(res["g1"].data) /\ HeaderOK(res["g1"].data)
    /\ res["g1"].data[18] = 70
    /\ res["g1"].err = "body"

C6_Inv ==
    \A t \in Threads :
       (Exchanging(t) /\ pc[t] # "idle" /\ ~IsHexString(requestStr[t])) =>
          /\ pc[t] = "ret"
          /\ res[t].err = "decode"
          /\ io[t] = NoIO
          /\ lconn[t] = NoConn
          /\ mu # t

C6_Step ==
    \A t \in Threads :
       (pc[t] = "idle" /\ pc'[t] # "idle" /\ ~IsHexString(requestStr'[t])) =>
          UNCHANGED << conn, mu, sock >>

\* C6: both variants.  When the frame string the station returned is not valid
\* hex, the operation returns the decode error at once: it has made no probe,
\* dial, write, read or close and has not taken the mutex, and the step leaves
\* the stored connection, the mutex and every socket as they were.
C6_DecodeErrorBeforeIO == [] C6_Inv /\ [][C6_Step]_vars

\* C6 witness: a Write was given an odd-length frame string while a connection
\* was stored, and has returned the decode error with the connection untouched
C6_Witness ==
    /\ Persistent
    /\ pc["g1"] = "ret" /\ op["g1"] = "Write" /\ res["g1"].err = "decode"
    /\ requestStr["g1"] = << "5", "0", "0" >>
    /\ conn = 1 /\ sock[1] = "open"

OnTheWayOut == { "teardown", "td", "ret", "panic" }

\* C7: both variants.  One call makes at most one dial, one write of the
\* payload and one read of the response.  Once its write or read has failed
\* the call only tears down and returns that error: a write error leaves
\* exactly one write and no read behind, a read error one write and one read.
C7_NoInternalRetry ==
    \A t \in Threads :
       /\ io[t].dial <= 1 /\ io[t].write <= 1 /\ io[t].read <= 1
       /\ IOError(t) => pc[t] \in OnTheWayOut
       /\ (res[t].err = "write") => (io[t].write = 1 /\ io[t].read = 0)
       /\ (res[t].err = "read") => (io[t].write = 1 /\ io[t].read = 1)

\* C7 witness: a Read on a probed connection failed in its read, tore the
\* connection down and has returned the read error after one write, one read
\* and no dial
C7_Witness ==
    /\ Persistent
    /\ pc["g1"] = "ret" /\ op["g1"] = "Read" /\ res["g1"].err = "read"
    /\ io["g1"] = [NoIO EXCEPT !.probe = 1, !.write = 1, !.read = 1, !.close = 1]
    /\ conn = NoConn

\* the step in which Close runs its body
CloseStep(t) == pc[t] \in { "cl", "closeE" } /\ pc'[t] = "ret"

C8_Step ==
    \A t \in Threads :
       CloseStep(t) =>
          /\ conn' = NoConn
          /\ Persistent => mu' = Free
          /\ (conn # NoConn) =>
                /\ sock' = [sock EXCEPT ![conn] = "closed"]
                /\ io'[t].close = io[t].close + 1
          /\ (conn = NoConn) =>
                /\ sock' = sock
                /\ io'[t].close = io[t].close
                /\ res'[t].err = "nil"

\* C8: both variants.  Close closes the stored connection if there is one and
\* leaves none stored; a Close that finds none stored closes no socket,
\* changes neither the stored connection nor any socket and returns no error,
\* so a second Close in a row changes nothing.
C8_CloseIdempotent == [][C8_Step]_vars

\* C8 witness: a Close that found nothing stored, after socket 1 had been
\* closed and forgotten, has returned nil without closing anything
C8_Witness ==
    /\ pc["g1"] = "ret" /\ op["g1"] = "Close" /\ res["g1"].err = "nil"
    /\ io["g1"].close = 0
    /\ conn = NoConn /\ sock[1] = "closed" /\ sock[2] = "none"

\* C9: for every numPoints >= 0, a Read or BitRead that gets past its write
\* allocates a buffer of 22 + 2*numPoints bytes (make does not panic) and
\* returns between one byte and that many; a Write returns at most 22 bytes.
C9_BufferSizes ==
    \A t \in Threads :
       /\ (op[t] \in { "Read", "BitRead" } /\ pc[t] = "ret" /\ res[t].err = "nil") =>
             /\ res[t].cap = 22 + 2 * numPoints[t]
             /\ res[t].n >= 1 /\ res[t].n <= res[t].cap
       /\ (op[t] = "Write" /\ pc[t] = "ret" /\ res[t].err = "nil") => res[t].n <= 22
       /\ res[t].err # "panic: makeslice"

\* the persistent steps that may change c.conn
DialStep(t) ==
    /\ pc[t] = "gc" /\ mu = t /\ pc'[t] = "write"
    /\ io'[t].dial = io[t].dial + 1
    /\ lconn'[t] = conn'
FailedProbeStep(t) ==
    /\ pc[t] = "gc" /\ mu = t /\ pc'[t] = "gc"
    /\ io'[t].probe = io[t].probe + 1
TeardownStep(t) == pc[t] = "td" /\ mu = t /\ IOError(t) /\ pc'[t] = "ret"
GoodProbeStep(t) ==
    /\ pc[t] = "gc" /\ conn # NoConn /\ pc'[t] = "write"

C10_Step ==
    Persistent =>
       /\ (conn' # conn) =>
             \/ /\ conn = NoConn
                /\ sock[conn'] = "none" /\ sock'[conn'] = "open"
                /\ \E t \in Threads : DialStep(t)
             \/ /\ conn # NoConn /\ conn' = NoConn
                /\ sock'[conn] = "closed"
                /\ \E t \in Threads :
                      FailedProbeStep(t) \/ TeardownStep(t) \/ CloseStep(t)
       /\ \A t \in Threads :
             GoodProbeStep(t) => (conn' = conn /\ sock' = sock /\ lconn'[t] = conn)

\* C10: persistent variant.  The client starts with no connection stored.
\* c.conn changes only from nil to a freshly dialed socket, in the dial of
\* getConnection, and from a socket to nil (that socket being closed), in a
\* failed probe, in the teardown of an operation whose write or read failed,
\* or in Close; a successful probe keeps the stored socket and hands it out.
C10_StateMachine == (Persistent => conn = NoConn) /\ [][C10_Step]_vars

\* C10 witness: the stored connection has gone Absent, Live, Absent, Live:
\* socket 1 was dialed, failed its probe and was discarded, socket 2 was dialed
C10_Witness ==
    /\ Persistent
    /\ pc["g1"] = "write" /\ io["g1"].probe = 1 /\ io["g1"].dial = 1
    /\ io["g1"].close = 1
    /\ sock[1] = "closed" /\ conn = 2 /\ sock[2] = "open"

\* steps of t's getConnection, told apart by what conn.Write([]byte{}) and
\* net.DialTCP were asked to do in them
ProbeSucceeds(t) ==
    /\ io'[t].probe = io[t].probe + 1
    /\ io'[t].probeFail = io[t].probeFail
ProbeFails(t) == io'[t].probeFail = io[t].probeFail + 1
Dials(t) == io'[t].dial = io[t].dial + 1

C11_Step ==
    Persistent =>
       \A t \in Threads :
          /\ ProbeSucceeds(t) =>
                /\ conn # NoConn /\ sock[conn] = "open"
                /\ lconn'[t] = conn /\ pc'[t] = "write"
                /\ conn' = conn /\ sock' = sock
                /\ io'[t].dial = io[t].dial /\ io'[t].close = io[t].close
          /\ ProbeFails(t) =>
                /\ conn # NoConn
                /\ sock'[conn] = "closed" /\ conn' = NoConn
                /\ pc'[t] = "gc" /\ mu' = t
          /\ Dials(t) =>
                /\ conn = NoConn
                /\ \/ io[t].probe = 0
                   \/ io[t].probe = 1 /\ io[t].probeFail = 1 /\ io[t].close = 1

C11_Inv ==
    Persistent =>
       \A t \in Threads :
          (pc[t] \in { "write", "read" }) =>
             /\ lconn[t] # NoConn
             /\ IF io[t].probe = 1 /\ io[t].probeFail = 0
                THEN io[t].dial = 0 /\ io[t].close = 0
                ELSE io[t].dial = 1

\* C11: persistent variant.  When getConnection finds a stored connection and
\* its zero-length probe succeeds, it returns that same socket, leaves c.conn
\* and every socket as they were, and dials and closes nothing.  It dials only
\* with no connection stored: none was stored when it took the lock, or its
\* probe failed and it closed and forgot the old socket first.
C11_ReuseHealthy == []C11_Inv /\ [][C11_Step]_vars

\* C11 witness: a call probed the stored socket 1, dialed nothing, and has
\* written its payload on socket 1
C11_Witness ==
    /\ Persistent
    /\ pc["g1"] = "read"
    /\ io["g1"] = [NoIO EXCEPT !.probe = 1, !.write = 1]
    /\ lconn["g1"] = 1 /\ conn = 1 /\ sock[1] = "open"

\* a step in which the net.DialTCP of t's getConnection returned an error: it
\* dialed and no socket came to be stored
DialFails(t) == Dials(t) /\ conn' = NoConn

C12_Step ==
    Persistent =>
       \A t \in Threads :
          DialFails(t) =>
             /\ pc'[t] = "ret" /\ res'[t].err = "dial"
             /\ io'[t].write = 0 /\ io'[t].read = 0
             /\ lconn'[t] = NoConn
             /\ sock' = sock /\ mu' = Free

C12_Inv ==
    Persistent =>
       \A t \in Threads :
          (pc[t] = "ret" /\ res[t].err = "dial") =>
             /\ io[t].dial = 1 /\ io[t].write = 0 /\ io[t].read = 0
             /\ io[t].probe = io[t].probeFail /\ io[t].close = io[t].probeFail
             /\ lconn[t] = NoConn
             /\ Sequential => conn = NoConn

\* C12: persistent variant.  When the dial inside getConnection fails, with no
\* connection stored on entry or right after a failed probe, the operation
\* returns the dial error having written no payload and read nothing, and no
\* connection is stored when the dial has failed (with one caller, none is
\* stored when the operation returns).
C12_DialErrorNoExchange == []C12_Inv /\ [][C12_Step]_vars

\* C12 witness: the probe of socket 1 failed, the dial after it failed too, and
\* the operation is returning the dial error
C12_Witness ==
    /\ Persistent
    /\ pc["g1"] = "ret" /\ res["g1"].err = "dial"
    /\ io["g1"] = [NoIO EXCEPT !.probe = 1, !.probeFail = 1, !.close = 1,
                               !.dial = 1]
    /\ conn = NoConn /\ sock[1] = "closed" /\ sock[2] = "none"

\* C13: persistent variant.  A goroutine holds the mutex only inside
\* getConnection, inside the teardown of a failed write or read, and inside
\* Close; while it is at its payload write or its response read it does not
\* hold it.
C13_LockOnlyAroundConn ==
    Persistent =>
       \A t \in Threads :
          /\ (mu = t) => pc[t] \in Locked
          /\ (pc[t] \in { "write", "read" }) => mu # t

C15_Step ==
    Explicit =>
       /\ TouchesConn => \E t \in callers : pc[t] \in { "connectE", "closeE" }
       /\ \A t \in callers :
             (Exchanging(t) /\ pc[t] \in { "writeE", "readE" }) =>
                /\ conn' = conn /\ sock' = sock
                /\ io'[t].dial = 0 /\ io'[t].probe = 0 /\ io'[t].close = 0

C15_Inv ==
    Explicit =>
       \A t \in callers :
          /\ Exchanging(t) =>
                io[t].dial = 0 /\ io[t].probe = 0 /\ io[t].close = 0
          /\ (pc[t] = "ret" /\ IOError(t)) =>
                conn # NoConn /\ sock[conn] # "none"
          /\ (prevFail /\ pc[t] = "readE") =>
                conn # NoConn /\ io[t].write = 1

\* C15: explicit variant.  HealthCheck, Read, BitRead and Write never probe,
\* dial, close or replace c.conn: the stored connection and the sockets change
\* only in Connect and Close.  When a write or read has failed a socket is
\* still stored, and the next operation writes on the stored socket again
\* without dialing.
C15_ExplicitNoRedial == []C15_Inv /\ [][C15_Step]_vars

\* C15 witness: a read on socket 1 failed, socket 1 stayed stored, and the next
\* operation has written and read on it
C15_Witness ==
    /\ Explicit /\ prevFail
    /\ pc["g1"] = "ret" /\ op["g1"] = "Read" /\ res["g1"].err = "nil"
    /\ io["g1"] = [NoIO EXCEPT !.write = 1, !.read = 1]
    /\ conn = 1 /\ sock[1] = "open" /\ sock[2] = "none"

\* C16: persistent variant, any number of callers.  The teardown of a failed
\* write or read finds a connection stored when it closes it: c.conn.Close()
\* is never called on a nil c.conn, so no operation panics there.
C16_TeardownFindsConn ==
    Persistent =>
       \A t \in Threads :
          /\ (pc[t] = "td") => conn # NoConn
          /\ res[t].err # "panic: nil conn"

C17_Step ==
    Persistent => \A t \in Threads : TeardownStep(t) => conn = lconn[t]

\* C17: persistent variant.  The teardown of a failed write or read closes the
\* socket that operation wrote to or read from, never another socket that a
\* different caller has dialed and stored since.
C17_TeardownClosesOwn == [][C17_Step]_vars

\* C18: both variants.  A socket that was dialed and is not closed is the
\* stored connection, so at most one socket is open; the connection a
\* persistent operation has borrowed is the stored one or is closed already.
C18_NoSocketLeak ==
    /\ \A s \in Sockets : (sock[s] = "open") => conn = s
    /\ Cardinality({ s \in Sockets : sock[s] = "open" }) <= 1
    /\ \A t \in Threads :
          (lconn[t] # NoConn) => (lconn[t] = conn \/ sock[lconn[t]] = "closed")

\* C18 witness: socket 1 was dialed, borrowed and closed, socket 2 was dialed
\* and is stored, and a goroutine still holds its reference to socket 1
C18_Witness ==
    /\ Persistent
    /\ pc["g1"] \in { "write", "read", "teardown" }
    /\ lconn["g1"] = 1 /\ sock[1] = "closed"
    /\ conn = 2 /\ sock[2] = "open" /\ sock[3] = "none"

\* a step in which the conn.Read of t's persistent operation returned bytes
ReadsOK(t) ==
    /\ pc[t] = "read"
    /\ io'[t].read = io[t].read + 1
    /\ res'[t].err # "read"

C14_Step ==
    Persistent =>
       \A t \in Threads :
          ReadsOK(t) =>
             /\ mu # t
             /\ rx[lconn[t]] # << >>
             /\ res'[t].from = Head(rx[lconn[t]])

\* C14: persistent variant, two callers.  Nothing keeps one caller's write and
\* read together: a read is made without the lock and returns the oldest
\* unread response of the socket, whichever caller's request it answers.  So
\* two callers can hold the same socket, one can write between the other's
\* write and read, and a caller can be handed the other caller's response
\* (the witness is that interleaving).
C14_ExchangesInterleave == [][C14_Step]_vars

\* C14 witness: g1 and g2 got socket 1; g1 wrote, then g2 wrote and read and
\* was handed the response to g1's request, and g1, still before its read,
\* will find the response to g2's
C14_Witness ==
    /\ Persistent
    /\ lconn["g1"] = 1 /\ lconn["g2"] = 1 /\ conn = 1 /\ sock[1] = "open"
    /\ pc["g1"] = "read" /\ io["g1"].write = 1
    /\ pc["g2"] = "ret" /\ res["g2"].err = "nil" /\ res["g2"].from = "g1"
    /\ rx[1] = << "g2" >>

\* C19: one caller, either variant.  The bytes an operation returns (or, in
\* HealthCheck, examines) are bytes of the response to its own request, never
\* bytes left unread from the response to an earlier request.
C19_OwnResponse ==
    Sequential =>
       \A t \in callers :
          (pc[t] = "ret" /\ io[t].read = 1 /\ res[t].err # "read") =>
             res[t].from = t

\* a step in which HealthCheck read a response and rejected it
RejectsResponse(t) ==
    /\ pc[t] = "read"
    /\ res'[t].err \in { "length", "header", "body" }

C20_Step ==
    Persistent =>
       \A t \in Threads :
          RejectsResponse(t) =>
             /\ pc'[t] = "ret"
             /\ conn' = conn /\ sock' = sock /\ mu' = mu
             /\ io'[t].close = io[t].close

C20_Inv ==
    (Persistent /\ Sequential) =>
       \A t \in callers :
          /\ (pc[t] = "ret" /\ res[t].err \in { "length", "header", "body" }) =>
                /\ conn = lconn[t] /\ sock[conn] = "open"
                /\ io[t].close = io[t].probeFail
          /\ (prevInvalid /\ pc[t] \in { "idle", "getConnection" }) =>
                conn # NoConn /\ sock[conn] = "open"
          /\ (prevInvalid /\ pc[t] \in { "write", "read" }
                /\ io[t].probeFail = 0) =>
                /\ io[t].probe = 1 /\ io[t].dial = 0 /\ io[t].close = 0
                /\ lconn[t] = conn /\ sock[conn] = "open"

\* C20: persistent variant.  A HealthCheck whose write and read succeeded and
\* whose validation fails returns without touching the stored connection: the
\* same socket stays stored and open and nothing is closed; the next
\* operation of a single caller finds it stored and, its probe succeeding,
\* uses it without dialing.
C20_InvalidKeepsConn == []C20_Inv /\ [][C20_Step]_vars

\* C20 witness: after a HealthCheck that rejected its response on socket 1, the
\* next operation probed socket 1, dialed nothing and got its bytes
C20_Witness ==
    /\ Persistent /\ Sequential /\ prevInvalid
    /\ pc["g1"] = "ret" /\ res["g1"].err = "nil"
    /\ io["g1"] = [NoIO EXCEPT !.probe = 1, !.write = 1, !.read = 1]
    /\ lconn["g1"] = 1 /\ conn = 1 /\ sock[1] = "open" /\ sock[2] = "none"

====
